---------------------------- MODULE Spec2Model ----------------------------
(***************************************************************************)
(* A model of mebula's filter language evaluator (mebula/dict_filter.py): *)
(* the FilterDict transformer applied to a parse tree and a nested        *)
(* dictionary, match_dict and filter_dicts around it; and of the mock     *)
(* cloud back ends of mebula/google.py, mebula/azure.py and               *)
(* mebula/oracle.py, each a state machine of its own over its own         *)
(* variables.                                                              *)
(*                                                                         *)
(* Python strings are sequences of one-character strings, so that split,  *)
(* endswith, slicing and ordering are computed and not assumed.            *)
(* Python values are tagged records [t, v]; a dict is the sequence of its  *)
(* items [k, v] in insertion order.  An evaluation outcome is a record     *)
(* [kind, val]: kind "return" with val "True"/"False", or kind "raise"     *)
(* with val the name of the exception class.                               *)
(***************************************************************************)
EXTENDS Integers, Sequences, FiniteSets, TLC

VARIABLES pattern, dictionary, outcome, pc,
          dictionaries, position, yielded, raised,
          mocking, state, inserted, earlier, response,
          vms, poller,
          instances, vnics, vnic_attachments, launched, listing

(* match_dict: the parsed filter, the dictionary, the call's outcome *)
matchVars == <<pattern, dictionary, outcome, pc>>
(* filter_dicts: the iterable, how far the filter object has consumed it, the
   records it has yielded, and what its last next() did *)
iterVars == <<dictionaries, position, yielded, raised>>
(* mock_google: whether a context is open, the instances of its GoogleState,
   the requests that have inserted one in it, whether any was inserted in a
   context since closed, and what the last request of the context returned *)
googleVars == <<mocking, state, inserted, earlier, response>>
(* mock_azure: AzureState.instances, and what the last operation returned *)
azureVars == <<vms, poller>>
(* mock_oracle: the three collections of OracleState, the launches so far, and
   what the last operation returned *)
oracleVars == <<instances, vnics, vnic_attachments, launched, listing>>

vars == <<matchVars, iterVars, googleVars, azureVars, oracleVars>>

---------------------------------------------------------------------------
(* Python values *)

PyStr(s)  == [t |-> "str",  v |-> s]
PyInt(n)  == [t |-> "int",  v |-> n]
PyBool(b) == [t |-> "bool", v |-> b]
PyList(l) == [t |-> "list", v |-> l]
PyDict(d) == [t |-> "dict", v |-> d]
PyNone    == [t |-> "none", v |-> <<>>]

Item(k, x) == [k |-> k, v |-> x]

Ret(b)   == [kind |-> "return", val |-> IF b THEN "True" ELSE "False"]
Raise(e) == [kind |-> "raise", val |-> e]

IsTrue(o)  == o = Ret(TRUE)
IsFalse(o) == o = Ret(FALSE)

(* Code points of the characters used, for str's lexicographic ordering. *)
Ord == [c \in {" ", "'", "*", "1", "2", "a", "b", "f", "o", "r"} |->
          CASE c = " " -> 32 [] c = "'" -> 39 [] c = "*" -> 42
            [] c = "1" -> 49 [] c = "2" -> 50 [] c = "a" -> 97 [] c = "b" -> 98
            [] c = "f" -> 102 [] c = "o" -> 111 [] c = "r" -> 114]

(* a < b on str: the first differing character decides, a proper prefix is smaller *)
StrLt(a, b) ==
    \E i \in 1..Len(b) :
        /\ \A j \in 1..(i - 1) : j <= Len(a) /\ a[j] = b[j]
        /\ (i > Len(a) \/ Ord[a[i]] < Ord[b[i]])

(* str.endswith(c) for a one-character c *)
EndsWith(s, c) == Len(s) >= 1 /\ s[Len(s)] = c

RECURSIVE SplitOn(_, _, _, _, _)
(* the pieces of s[i..] between occurrences of sep; keepEmpty as str.split(sep)
   does, dropping empty pieces as str.split() does on whitespace *)
SplitOn(s, sep, i, cur, keepEmpty) ==
    IF i > Len(s)
    THEN IF cur = <<>> /\ ~keepEmpty THEN <<>> ELSE <<cur>>
    ELSE IF s[i] = sep
         THEN (IF cur = <<>> /\ ~keepEmpty THEN <<>> ELSE <<cur>>)
              \o SplitOn(s, sep, i + 1, <<>>, keepEmpty)
         ELSE SplitOn(s, sep, i + 1, Append(cur, s[i]), keepEmpty)

(* true_value.split() *)
SplitWhitespace(s) == SplitOn(s, " ", 1, <<>>, FALSE)

(* key.split(".") *)
SplitDots(s) == SplitOn(s, ".", 1, <<>>, TRUE)

InSeq(x, l) == \E i \in 1..Len(l) : l[i] = x


---------------------------------------------------------------------------
(* Tokens of the grammar *)

VALUE_COMPARATOR == {":", "=", "!=", "<", "<=", ">", ">=", "~", "!~"}
LIST_COMPARATOR  == {":(", "=("}

Digits == {"1", "2"}
Quotes == {"'"}

(* the terminal that matches a whole literal: STRING is delimited by matching
   quotes, NUMBER is all digits, anything else is a CHARACTER_SEQUENCE *)
TokenType(text) ==
    IF Len(text) >= 2 /\ text[1] \in Quotes /\ text[Len(text)] = text[1]
    THEN "STRING"
    ELSE IF Len(text) >= 1 /\ \A i \in 1..Len(text) : text[i] \in Digits
         THEN "NUMBER"
         ELSE "CHARACTER_SEQUENCE"

Token(text) == [type |-> TokenType(text), text |-> text]

(* the rule alias a binary_logical_operator tree carries in .data *)
BinaryOperatorData(op) == IF op = "OR" THEN "or" ELSE "and"

(* the rule alias a unary_logical_operator tree carries in .data *)
UnaryOperatorData(op) == IF op = "NOT" THEN "not" ELSE op

(* Parse tree nodes, one record shape for every rule *)
Node(data, key, op, items, children, ops) ==
    [data |-> data, key |-> key, op |-> op, items |-> items,
     children |-> children, ops |-> ops]

CompareNode(key, op, text)      == Node("compare", key, op, <<Token(text)>>, <<>>, <<>>)
CompareListNode(key, op, texts) ==
    Node("compare_list", key, op, [i \in 1..Len(texts) |-> Token(texts[i])], <<>>, <<>>)
IsDefinedNode(key)              == Node("is_defined", key, "", <<>>, <<>>, <<>>)
NotDefinedNode(key)             == Node("not_defined", key, "", <<>>, <<>>, <<>>)
LogicalUnaryNode(op, child)     == Node("logical_unary", <<>>, "", <<>>, <<child>>, <<op>>)
LogicalBinaryNode(children, ops) == Node("logical_binary", <<>>, "", <<>>, children, ops)

---------------------------------------------------------------------------
(* FilterDict *)

(* _pattern_match as it would be with the wildcard taken for the word before
   the "*" *)
PatternMatchGuessing(true_value, check_value) ==
    IF true_value.t # "str" THEN Raise("AttributeError")
    ELSE IF EndsWith(check_value, "*")
    THEN Ret(InSeq(SubSeq(check_value, 1, Len(check_value) - 1),
                   SplitWhitespace(true_value.v)))
    ELSE Ret(InSeq(check_value, SplitWhitespace(true_value.v)))

(* check_value.endswith("*") raises; otherwise check_value in true_value.split(),
   which only str has *)
PatternMatch(true_value, check_value) ==
    IF EndsWith(check_value, "*") THEN Raise("NotImplementedError")
    ELSE IF true_value.t # "str" THEN Raise("AttributeError")
    ELSE Ret(InSeq(check_value, SplitWhitespace(true_value.v)))

(* d[k] on a Python value: a dict looks the key up, anything else cannot be
   indexed by a str *)
GetItem(d, k) ==
    IF d.t = "dict"
    THEN IF \E i \in 1..Len(d.v) : d.v[i].k = k
         THEN [exc |-> "", val |-> d.v[CHOOSE i \in 1..Len(d.v) : d.v[i].k = k].v]
         ELSE [exc |-> "KeyError", val |-> PyNone]
    ELSE [exc |-> "TypeError", val |-> PyNone]

RECURSIVE Walk(_, _, _)
Walk(true_value, segments, i) ==
    IF i > Len(segments) THEN [exc |-> "", val |-> true_value]
    ELSE LET r == GetItem(true_value, segments[i])
         IN  IF r.exc # "" THEN r ELSE Walk(r.val, segments, i + 1)

KeyValue(instance, key) == Walk(instance, SplitDots(key), 1)

(* operator.eq(true_value, value) with value a str: only a str can be equal *)
PyEq(true_value, value) == true_value.t = "str" /\ true_value.v = value

(* operator.lt/le/ge/gt(true_value, value) with value a str *)
PyOrder(op, true_value, value) ==
    IF true_value.t # "str" THEN Raise("TypeError")
    ELSE CASE op = "<"  -> Ret(StrLt(true_value.v, value))
           [] op = "<=" -> Ret(~StrLt(value, true_value.v))
           [] op = ">=" -> Ret(~StrLt(true_value.v, value))
           [] op = ">"  -> Ret(StrLt(value, true_value.v))

(* re: the pattern language over the characters used is literals and a
   postfix "*"; a "*" with nothing to repeat does not compile *)
ReCompiles(p) == \A i \in 1..Len(p) : p[i] = "*" => (i > 1 /\ p[i - 1] # "*")

RECURSIVE ReMatchAt(_, _, _, _)
ReMatchAt(p, i, s, j) ==
    IF i > Len(p) THEN TRUE
    ELSE IF i + 1 <= Len(p) /\ p[i + 1] = "*"
         THEN \/ ReMatchAt(p, i + 2, s, j)
              \/ (j <= Len(s) /\ s[j] = p[i] /\ ReMatchAt(p, i, s, j + 1))
         ELSE j <= Len(s) /\ s[j] = p[i] /\ ReMatchAt(p, i + 1, s, j + 1)

(* bool(re.match(p, s)) *)
ReMatch(s, p) ==
    IF ~ReCompiles(p) THEN Raise("re.error")
    ELSE IF s.t # "str" THEN Raise("TypeError")
    ELSE Ret(ReMatchAt(p, 1, s.v, 1))

Negate(o) == IF o.kind = "return" THEN Ret(~IsTrue(o)) ELSE o

(* the operator_f table of compare, applied *)
OperatorF(op, true_value, value) ==
    CASE op = ":"  -> PatternMatch(true_value, value)
      [] op = "="  -> Ret(PyEq(true_value, value))
      [] op = "!=" -> Ret(~PyEq(true_value, value))
      [] op \in {"<", "<=", ">=", ">"} -> PyOrder(op, true_value, value)
      [] op = "~"  -> ReMatch(true_value, value)
      [] op = "!~" -> Negate(ReMatch(true_value, value))
      [] OTHER     -> Raise("KeyError")

(* a variant that slices every literal, quoted or not *)
StripQuotesAlways(tok) ==
    [type |-> "CHARACTER_SEQUENCE", text |-> SubSeq(tok.text, 2, Len(tok.text) - 1)]

(* value.update("CHARACTER_SEQUENCE", value[1:-1]) for a STRING token *)
StripQuotes(tok) ==
    IF tok.type = "STRING"
    THEN [type |-> "CHARACTER_SEQUENCE", text |-> SubSeq(tok.text, 2, Len(tok.text) - 1)]
    ELSE tok

(* a variant that takes a missing key to satisfy != *)
CompareMissingSatisfiesNotEquals(instance, key, operator_name, value) ==
    LET kv == KeyValue(instance, key)
    IN  IF kv.exc = "KeyError" THEN Ret(operator_name = "!=")
        ELSE IF kv.exc # "" THEN Raise(kv.exc)
        ELSE OperatorF(operator_name, kv.val, StripQuotes(value).text)

Compare(instance, key, operator_name, value) ==
    LET kv == KeyValue(instance, key)
    IN  IF kv.exc = "KeyError" THEN Ret(FALSE)
        ELSE IF kv.exc # "" THEN Raise(kv.exc)
        ELSE OperatorF(operator_name, kv.val, StripQuotes(value).text)

(* the operator_f table of compare_list, applied to one candidate *)
ListOperatorF(op, true_value, v) ==
    CASE op = ":(" -> PatternMatch(true_value, v)
      [] op = "=(" -> Ret(PyEq(true_value, v))
      [] OTHER     -> Raise("KeyError")

(* any(...) over a generator: the first element that is true or raises decides *)
AnyOf(outs) ==
    IF \E i \in 1..Len(outs) : ~IsFalse(outs[i])
    THEN LET i == CHOOSE i \in 1..Len(outs) :
                      ~IsFalse(outs[i]) /\ \A j \in 1..(i - 1) : IsFalse(outs[j])
         IN  outs[i]
    ELSE Ret(FALSE)

(* all(...) over a list of booleans *)
AllOf(outs) == Ret(\A i \in 1..Len(outs) : IsTrue(outs[i]))

CompareList(instance, key, operator_name, list_items) ==
    LET kv == KeyValue(instance, key)
        check_values == [i \in 1..Len(list_items) |-> list_items[i].text]
    IN  IF kv.exc = "KeyError" THEN Ret(FALSE)
        ELSE IF kv.exc # "" THEN Raise(kv.exc)
        ELSE IF operator_name \notin LIST_COMPARATOR THEN Raise("KeyError")
        ELSE AnyOf([i \in 1..Len(check_values) |->
                       ListOperatorF(operator_name, kv.val, check_values[i])])

IsDefined(instance, dotted_key_name) ==
    LET kv == KeyValue(instance, dotted_key_name)
    IN  IF kv.exc = "KeyError" THEN Ret(FALSE)
        ELSE IF kv.exc # "" THEN Raise(kv.exc)
        ELSE Ret(TRUE)

NotDefined(instance, dotted_key_name) == Negate(IsDefined(instance, dotted_key_name))

LogicalUnary(unary_operator, data) ==
    IF unary_operator = "not" THEN Negate(data) ELSE Raise("NotImplementedError")

(* a variant that answers any() for AND and all() for OR *)
LogicalBinarySwapped(data, operators) ==
    LET all_and == \A i \in 1..Len(operators) : operators[i] = "and"
        all_or  == \A i \in 1..Len(operators) : operators[i] = "or"
    IN  IF ~(all_and \/ all_or) THEN Raise("SyntaxError")
        ELSE IF all_and THEN AnyOf(data)
        ELSE AllOf(data)

LogicalBinary(data, operators) ==
    LET all_and == \A i \in 1..Len(operators) : operators[i] = "and"
        all_or  == \A i \in 1..Len(operators) : operators[i] = "or"
    IN  IF ~(all_and \/ all_or) THEN Raise("SyntaxError")
        ELSE IF all_and THEN AllOf(data)
        ELSE AnyOf(data)

(* lark.Transformer calls the rule's method and wraps what it raises *)
CallUserFunc(o) == IF o.kind = "raise" THEN [kind |-> "VisitError", val |-> o.val] ELSE o

RECURSIVE Transform(_, _)
(* FilterDict(instance).transform(tree): children first, left to right, then
   the node's own method *)
Transform(tree, instance) ==
    CASE tree.data = "compare" ->
            CallUserFunc(Compare(instance, tree.key, tree.op, tree.items[1]))
      [] tree.data = "compare_list" ->
            CallUserFunc(CompareList(instance, tree.key, tree.op, tree.items))
      [] tree.data = "is_defined" ->
            CallUserFunc(IsDefined(instance, tree.key))
      [] tree.data = "not_defined" ->
            CallUserFunc(NotDefined(instance, tree.key))
      [] tree.data = "logical_unary" ->
            LET c == Transform(tree.children[1], instance)
            IN  IF c.kind # "return" THEN c
                ELSE CallUserFunc(LogicalUnary(UnaryOperatorData(tree.ops[1]), c))
      [] tree.data = "logical_binary" ->
            LET cs == [i \in 1..Len(tree.children) |-> Transform(tree.children[i], instance)]
                failed == {i \in 1..Len(cs) : cs[i].kind # "return"}
            IN  IF failed # {}
                THEN cs[CHOOSE i \in failed : \A j \in failed : i <= j]
                ELSE CallUserFunc(LogicalBinary(cs,
                         [i \in 1..Len(tree.ops) |-> BinaryOperatorData(tree.ops[i])]))

(* match_dict(pattern, dictionary), on the tree parse_filter(pattern) returns *)
MatchDictResult(p, d) ==
    LET r == Transform(p, d)
    IN  IF r.kind = "VisitError" THEN Raise(r.val) ELSE r

---------------------------------------------------------------------------
(* The inputs: filters and dictionaries *)

MaxItems    == 2    \* most candidates in a compare_list
MaxOperands == 3    \* most operands of a logical_binary

Quote(text) == <<"'">> \o text \o <<"'">>

(* unquoted literals: a b ab a* 1 2 *)
BareTexts == {<<"a">>, <<"b">>, <<"a", "b">>, <<"a", "*">>, <<"1">>, <<"2">>}

(* quoted literals: each of the above in quotes, and 'a b' and '' *)
QuotedTexts == {Quote(t) : t \in BareTexts} \cup {Quote(<<"a", " ", "b">>), Quote(<<>>)}

LiteralTexts == BareTexts \cup QuotedTexts

(* the candidates of a list: a b a* 'a' 1 *)
ListTexts == {<<"a">>, <<"b">>, <<"a", "*">>, Quote(<<"a">>), <<"1">>}

(* KEY tokens: a b c a.b a.b.c *)
Keys == {<<"a">>, <<"b">>, <<"c">>, <<"a", ".", "b">>, <<"a", ".", "b", ".", "c">>}

(* the values a dictionary holds at the end of a path *)
Leaves ==
    {PyStr(<<"a">>), PyStr(<<"b">>), PyStr(<<"a", "b">>), PyStr(<<"a", " ", "b">>),
     PyStr(<<"1">>), PyStr(Quote(<<"a">>)), PyStr(<<>>),
     PyInt(1), PyInt(2), PyBool(TRUE), PyList(<<PyStr(<<"a">>)>>)}

(* {} and {k: x} for x in xs *)
DictsOver(k, xs) == {PyDict(<<>>)} \cup {PyDict(<<Item(k, x)>>) : x \in xs}

(* nested dictionaries along a, a.b, a.b.c, with a sibling key b *)
Records ==
    LET underB == Leaves \cup DictsOver(<<"c">>, Leaves)
        underA == Leaves \cup DictsOver(<<"b">>, underB)
        forB   == {PyStr(<<"b">>), PyInt(1)}
    IN  {PyDict(<<>>)}
        \cup {PyDict(<<Item(<<"a">>, x)>>) : x \in underA}
        \cup {PyDict(<<Item(<<"b">>, y)>>) : y \in forB}
        \cup {PyDict(<<Item(<<"a">>, x), Item(<<"b">>, y)>>) : x \in underA, y \in forB}

(* the flat dictionaries logical filters are evaluated on *)
LogicRecords ==
    LET forA == {PyStr(<<"a">>), PyStr(<<"b">>), PyInt(1)}
        forB == {PyStr(<<"b">>)}
    IN  {PyDict(<<>>)}
        \cup {PyDict(<<Item(<<"a">>, x)>>) : x \in forA}
        \cup {PyDict(<<Item(<<"b">>, y)>>) : y \in forB}
        \cup {PyDict(<<Item(<<"a">>, x), Item(<<"b">>, y)>>) : x \in forA, y \in forB}

SeqsOf(S, lo, hi) == UNION {[1..n -> S] : n \in lo..hi}

CompareTrees ==
    {CompareNode(k, op, t) : k \in Keys, op \in VALUE_COMPARATOR, t \in LiteralTexts}

CompareListTrees ==
    {CompareListNode(k, op, ts) :
        k \in Keys, op \in LIST_COMPARATOR, ts \in SeqsOf(ListTexts, 1, MaxItems)}

DefinedTrees == {IsDefinedNode(k) : k \in Keys} \cup {NotDefinedNode(k) : k \in Keys}

TermTrees == CompareTrees \cup CompareListTrees \cup DefinedTrees

(* the operands logical filters are built from:
   a=a  b=b  a:a*  NOT a=a  (a=a OR b=b) *)
LogicTerms ==
    {CompareNode(<<"a">>, "=", <<"a">>), CompareNode(<<"b">>, "=", <<"b">>),
     CompareNode(<<"a">>, ":", <<"a", "*">>),
     LogicalUnaryNode("NOT", CompareNode(<<"a">>, "=", <<"a">>)),
     LogicalBinaryNode(<<CompareNode(<<"a">>, "=", <<"a">>),
                         CompareNode(<<"b">>, "=", <<"b">>)>>, <<"OR">>)}

BinaryOperators == {"AND", "OR", "WS"}

(* n operands take n - 1 operators *)
BinaryTrees ==
    UNION {{LogicalBinaryNode(cs, os) :
               cs \in [1..n -> LogicTerms], os \in [1..(n - 1) -> BinaryOperators]} :
           n \in 2..MaxOperands}

UnaryTrees == {LogicalUnaryNode("NOT", t) : t \in LogicTerms}

(* three operands the last of which is an ordering term: a=a OR b=b AND a<a
   and the like *)
OrderingTrees ==
    {LogicalBinaryNode(<<x, y, CompareNode(<<"a">>, "<", <<"a">>)>>, os) :
        x \in {CompareNode(<<"a">>, "=", <<"a">>), CompareNode(<<"b">>, "=", <<"b">>)},
        y \in {CompareNode(<<"a">>, "=", <<"a">>), CompareNode(<<"b">>, "=", <<"b">>)},
        os \in [1..2 -> BinaryOperators]}

LogicTrees == BinaryTrees \cup UnaryTrees \cup OrderingTrees

---------------------------------------------------------------------------
(* match_dict as a one-call state machine *)

NoOutcome == [kind |-> "none", val |-> ""]

(* the parts of the state a machine does not use stay as they are here *)
NoIteration ==
    dictionaries = <<>> /\ position = 0 /\ yielded = <<>> /\ raised = NoOutcome
NoGoogle ==
    /\ mocking = FALSE /\ state = <<>> /\ inserted = <<>> /\ earlier = FALSE
    /\ response = NoOutcome
NoAzure  == vms = <<>> /\ poller = NoOutcome
NoOracle ==
    /\ instances = <<>> /\ vnics = <<>> /\ vnic_attachments = <<>>
    /\ launched = <<>> /\ listing = NoOutcome

Init ==
    /\ pc = "call"
    /\ outcome = NoOutcome
    /\ \/ pattern \in TermTrees /\ dictionary \in Records
       \/ pattern \in LogicTrees /\ dictionary \in LogicRecords
    /\ NoIteration /\ NoGoogle /\ NoAzure /\ NoOracle

MatchDict ==
    /\ pc = "call"
    /\ outcome' = MatchDictResult(pattern, dictionary)
    /\ pc' = "done"
    /\ UNCHANGED <<pattern, dictionary, iterVars, googleVars, azureVars, oracleVars>>

Next == MatchDict

Spec == Init /\ [][Next]_vars

---------------------------------------------------------------------------
(* What the claims speak of *)

Done == pc = "done"

(* Looking the segments of a dotted key up in turn, starting from d:
   "resolved" with the value reached, "absent" when a mapping reached lacks the
   next segment, "blocked" when a value reached before the last segment is not
   a mapping *)
Path(d, key) ==
    LET segs == SplitDots(key)
        at[i \in 0..Len(segs)] ==
            IF i = 0 THEN [st |-> "resolved", val |-> d]
            ELSE IF at[i - 1].st # "resolved" THEN at[i - 1]
            ELSE IF at[i - 1].val.t # "dict" THEN [st |-> "blocked", val |-> PyNone]
            ELSE LET items == at[i - 1].val.v
                     hits  == {j \in 1..Len(items) : items[j].k = segs[i]}
                 IN  IF hits = {} THEN [st |-> "absent", val |-> PyNone]
                     ELSE [st |-> "resolved", val |-> items[CHOOSE j \in hits : TRUE].v]
    IN  at[Len(segs)]

NumSegments(key) == Len(SplitDots(key))

IsBare(tok) == tok.type # "STRING"

(* the scalar a literal stands for: a quoted literal without its quotes *)
ScalarOf(tok) ==
    IF tok.type = "STRING" THEN SubSeq(tok.text, 2, Len(tok.text) - 1) ELSE tok.text

(* C1: on a compare whose key resolves to a string s and whose literal is the
   bare token v, key=v returns true iff s = v, key!=v returns true iff s # v,
   and exactly one of key=v, key!=v is true. *)
C1_BareEquality ==
    (/\ Done
     /\ pattern.data = "compare"
     /\ pattern.op \in {"=", "!="}
     /\ IsBare(pattern.items[1])
     /\ Path(dictionary, pattern.key).st = "resolved"
     /\ Path(dictionary, pattern.key).val.t = "str")
    => LET s  == Path(dictionary, pattern.key).val.v
           v  == pattern.items[1].text
           eq == MatchDictResult(CompareNode(pattern.key, "=", v), dictionary)
           ne == MatchDictResult(CompareNode(pattern.key, "!=", v), dictionary)
       IN  /\ pattern.op = "="  => outcome = Ret(s = v)
           /\ pattern.op = "!=" => outcome = Ret(s # v)
           /\ {eq, ne} = {Ret(TRUE), Ret(FALSE)}

(* key!=v was evaluated on a nested string that differs from v, and returned true *)
C1_Witness ==
    /\ Done
    /\ pattern.data = "compare" /\ pattern.op = "!="
    /\ IsBare(pattern.items[1])
    /\ NumSegments(pattern.key) = 2
    /\ Path(dictionary, pattern.key).st = "resolved"
    /\ Path(dictionary, pattern.key).val.t = "str"
    /\ Path(dictionary, pattern.key).val.v # pattern.items[1].text
    /\ IsTrue(outcome)

(* C2: a compare (any of : = != < <= > >= ~ !~) or compare_list (:( or =()
   whose dotted key has a segment absent from the mapping reached so far
   returns false and raises nothing. *)
C2_MissingKeyIsFalse ==
    (/\ Done
     /\ pattern.data \in {"compare", "compare_list"}
     /\ Path(dictionary, pattern.key).st = "absent")
    => IsFalse(outcome)

(* key!=v was evaluated on a dictionary that lacks a later segment of the key *)
C2_Witness ==
    /\ Done
    /\ pattern.data = "compare" /\ pattern.op = "!="
    /\ NumSegments(pattern.key) = 3
    /\ Path(dictionary, <<"a", ".", "b">>).st = "resolved"
    /\ Path(dictionary, pattern.key).st = "absent"
    /\ IsFalse(outcome)

(* C3: when a non-final segment resolves to a scalar or a list, compare and
   compare_list return false, is_defined returns false and not_defined true;
   nothing is raised. *)
C3_BlockedPathIsFalse ==
    (Done /\ pattern.data \in {"compare", "compare_list", "is_defined", "not_defined"}
          /\ Path(dictionary, pattern.key).st = "blocked")
    => IF pattern.data = "not_defined" THEN IsTrue(outcome) ELSE IsFalse(outcome)

(* C4: key:* is true iff every segment can be looked up in turn, and - key:*
   is its negation on the same dictionary. *)
C4_DefinedIffResolved ==
    /\ (Done /\ pattern.data = "is_defined")
          => outcome = Ret(Path(dictionary, pattern.key).st = "resolved")
    /\ (Done /\ pattern.data = "not_defined")
          => outcome = Ret(Path(dictionary, pattern.key).st # "resolved")

RECURSIVE NumberOf(_)
(* the number a NUMBER token's digits denote *)
NumberOf(text) ==
    IF text = <<>> THEN 0
    ELSE 10 * NumberOf(SubSeq(text, 1, Len(text) - 1))
         + (CASE text[Len(text)] = "1" -> 1 [] text[Len(text)] = "2" -> 2)

(* C5: for = != < <= > >=, when the resolved value is a number n and the
   literal a number m, the result is the numeric comparison of n with m. *)
C5_NumericComparison ==
    (/\ Done
     /\ pattern.data = "compare"
     /\ pattern.op \in {"=", "!=", "<", "<=", ">", ">="}
     /\ pattern.items[1].type = "NUMBER"
     /\ Path(dictionary, pattern.key).st = "resolved"
     /\ Path(dictionary, pattern.key).val.t = "int")
    => LET n == Path(dictionary, pattern.key).val.v
           m == NumberOf(pattern.items[1].text)
       IN  outcome = Ret(CASE pattern.op = "="  -> n = m
                           [] pattern.op = "!=" -> n # m
                           [] pattern.op = "<"  -> n < m
                           [] pattern.op = "<=" -> n <= m
                           [] pattern.op = ">"  -> n > m
                           [] pattern.op = ">=" -> n >= m)

(* C6: a compare with = != < <= > >= whose key resolves returns a boolean,
   whatever the type of the resolved value. *)
C6_ComparisonNeverRaises ==
    (/\ Done
     /\ pattern.data = "compare"
     /\ pattern.op \in {"=", "!=", "<", "<=", ">", ">="}
     /\ Path(dictionary, pattern.key).st = "resolved")
    => outcome.kind = "return"

(* a candidate matches s: under =( it equals s, under :( it equals one of the
   whitespace-separated tokens of s *)
CandidateMatches(op, c, s) ==
    IF op = "=(" THEN c = s ELSE InSeq(c, SplitWhitespace(s))

(* C7: a compare_list whose key resolves to a string s is true iff at least
   one listed candidate matches s, and false when none does.  Stated for lists
   without a candidate ending in "*", whose evaluation is documented as not
   implemented. *)
C7_ListIsAnyCandidate ==
    (/\ Done
     /\ pattern.data = "compare_list"
     /\ Path(dictionary, pattern.key).st = "resolved"
     /\ Path(dictionary, pattern.key).val.t = "str"
     /\ \A i \in 1..Len(pattern.items) : ~EndsWith(ScalarOf(pattern.items[i]), "*"))
    => outcome = Ret(\E i \in 1..Len(pattern.items) :
                        CandidateMatches(pattern.op, ScalarOf(pattern.items[i]),
                                         Path(dictionary, pattern.key).val.v))

Orderings(n) == {f \in [1..n -> 1..n] : \A i, j \in 1..n : f[i] = f[j] => i = j}

(* C8: a compare_list has the same outcome (true, false or the error raised)
   for every ordering of its candidates. *)
C8_ListOrderIrrelevant ==
    (Done /\ pattern.data = "compare_list")
    => \A f \in Orderings(Len(pattern.items)) :
          MatchDictResult([pattern EXCEPT !.items =
                              [i \in 1..Len(pattern.items) |-> pattern.items[f[i]]]],
                          dictionary) = outcome

(* C9: a quoted literal is compared without its quotes: k op 'v' gives what
   k op v gives, and k=('v') (k:('v')) gives what k=(v) (k:(v)) gives. *)
C9_QuotesAreStripped ==
    /\ (Done /\ pattern.data = "compare" /\ IsBare(pattern.items[1]))
          => MatchDictResult(CompareNode(pattern.key, pattern.op,
                                         Quote(pattern.items[1].text)),
                             dictionary) = outcome
    /\ (Done /\ pattern.data = "compare_list"
             /\ \A i \in 1..Len(pattern.items) : IsBare(pattern.items[i]))
          => MatchDictResult(CompareListNode(pattern.key, pattern.op,
                                [i \in 1..Len(pattern.items) |->
                                    Quote(pattern.items[i].text)]),
                             dictionary) = outcome

(* the boolean an operand evaluates to on its own *)
OperandResults(tree, d) ==
    [i \in 1..Len(tree.children) |-> MatchDictResult(tree.children[i], d)]

(* C10: a logical_binary whose operators are all AND (explicit or implicit)
   evaluates to the conjunction of its operands' results, one whose operators
   are all OR to their disjunction, for any number of operands >= 2. *)
C10_UniformBinary ==
    (Done /\ pattern.data = "logical_binary")
    => LET r == OperandResults(pattern, dictionary)
       IN  (\A i \in 1..Len(r) : r[i].kind = "return")
           => /\ (\A i \in 1..Len(pattern.ops) : pattern.ops[i] \in {"AND", "WS"})
                    => outcome = Ret(\A i \in 1..Len(r) : IsTrue(r[i]))
              /\ (\A i \in 1..Len(pattern.ops) : pattern.ops[i] = "OR")
                    => outcome = Ret(\E i \in 1..Len(r) : IsTrue(r[i]))

(* three operands joined by an explicit and an implicit AND were evaluated,
   two of them true and one false *)
C10_Witness ==
    /\ Done
    /\ pattern.data = "logical_binary"
    /\ Len(pattern.children) = 3
    /\ pattern.ops = <<"AND", "WS">>
    /\ IsTrue(MatchDictResult(pattern.children[1], dictionary))
    /\ IsTrue(MatchDictResult(pattern.children[2], dictionary))
    /\ IsFalse(MatchDictResult(pattern.children[3], dictionary))
    /\ IsFalse(outcome)

---------------------------------------------------------------------------
(* Mixed operators, wildcards *)

(* a flat logical_binary that has both an OR and an AND (written or implied)
   between its operands *)
MixesOperators(tree) ==
    /\ tree.data = "logical_binary"
    /\ \E i \in 1..Len(tree.ops) : tree.ops[i] = "OR"
    /\ \E i \in 1..Len(tree.ops) : tree.ops[i] \in {"AND", "WS"}

(* a ":" term whose literal, without its quotes, ends in "*" *)
IsWildcardTerm(tree) ==
    /\ tree.data = "compare"
    /\ tree.op = ":"
    /\ EndsWith(ScalarOf(tree.items[1]), "*")

(* C11: a filter that mixes OR with AND at one level, none of whose operands
   is a wildcard term, raises SyntaxError on every dictionary: it returns no
   boolean and raises nothing else. *)
C11_MixedOperatorsRaiseSyntaxError ==
    (/\ Done
     /\ MixesOperators(pattern)
     /\ \A i \in 1..Len(pattern.children) : ~IsWildcardTerm(pattern.children[i]))
        => outcome = Raise("SyntaxError")

(* a ":(" term with this candidate, unquoted, ending in "*" *)
IsWildcardCandidate(tree, i) ==
    /\ tree.data = "compare_list"
    /\ tree.op = ":("
    /\ IsBare(tree.items[i])
    /\ EndsWith(tree.items[i].text, "*")

(* C12: a pattern term whose literal ends in "*" is a term of the grammar; it
   raises NotImplementedError when its key resolves and returns False when its
   key is absent, and returns nothing else.  A pattern list with a wildcard
   candidate never returns False on a resolved key (which would take the
   wildcard for a mismatch) and raises NotImplementedError when the wildcard
   comes first.  No term raises NotImplementedError on a key that does not
   resolve. *)
C12_WildcardRaisesWhenEvaluated ==
    LET resolved == Path(dictionary, pattern.key).st = "resolved"
        absent   == Path(dictionary, pattern.key).st = "absent"
    IN  (Done /\ pattern \in TermTrees) =>
            /\ outcome = Raise("NotImplementedError") => resolved
            /\ IsWildcardTerm(pattern) =>
                   /\ pattern.items[1].type \in {"CHARACTER_SEQUENCE", "STRING"}
                   /\ resolved => outcome = Raise("NotImplementedError")
                   /\ outcome.kind = "return" => absent /\ outcome = Ret(FALSE)
            /\ \A i \in 1..Len(pattern.items) :
                   (IsWildcardCandidate(pattern, i) /\ resolved) =>
                       /\ outcome # Ret(FALSE)
                       /\ i = 1 => outcome = Raise("NotImplementedError")

\* the filter a:a* on {"a": "ab"}, or a wildcard second in a pattern list
C12_Witness ==
    /\ Done
    /\ \/ IsWildcardTerm(pattern)
       \/ pattern.data = "compare_list" /\ Len(pattern.items) = 2
             /\ IsWildcardCandidate(pattern, 2)
    /\ Path(dictionary, pattern.key).st = "resolved"
    /\ Path(dictionary, pattern.key).val.t = "str"
    /\ outcome = Raise("NotImplementedError")

---------------------------------------------------------------------------
(* filter_dicts: the call, and the filter object it returns *)

MaxRecords == 2    \* most dictionaries in the iterable

(* a=a OR b=b AND a=a and the like: three operands out of a=a and b=b *)
ThreeOperandTrees ==
    {LogicalBinaryNode(cs, os) :
        cs \in [1..3 -> {CompareNode(<<"a">>, "=", <<"a">>),
                         CompareNode(<<"b">>, "=", <<"b">>)}],
        os \in [1..2 -> BinaryOperators]}

FilterPatterns == LogicTerms \cup ThreeOperandTrees

(* filter(function, iterable).__next__() with `position` items of the iterable
   consumed: items are taken until the function returns true for one, which is
   returned, or the function raises, or there is none left *)
FilterFalseNext(p, iterable, consumed) ==
    LET result(j) == Transform(p, iterable[j])
        stops     == {j \in (consumed + 1)..Len(iterable) : ~IsTrue(result(j))}
    IN  IF stops = {}
        THEN [position |-> Len(iterable), item |-> <<>>, raised |-> Raise("StopIteration")]
        ELSE LET j == CHOOSE j \in stops : \A k \in stops : j <= k
             IN  IF IsFalse(result(j))
                 THEN [position |-> j, item |-> <<iterable[j]>>, raised |-> NoOutcome]
                 ELSE [position |-> j, item |-> <<>>, raised |-> Raise(result(j).kind)]

FilterObjectNext(p, iterable, consumed) ==
    LET result(j) == Transform(p, iterable[j])
        stops     == {j \in (consumed + 1)..Len(iterable) : ~IsFalse(result(j))}
    IN  IF stops = {}
        THEN [position |-> Len(iterable), item |-> <<>>, raised |-> Raise("StopIteration")]
        ELSE LET j == CHOOSE j \in stops : \A k \in stops : j <= k
             IN  IF IsTrue(result(j))
                 THEN [position |-> j, item |-> <<iterable[j]>>, raised |-> NoOutcome]
                 ELSE [position |-> j, item |-> <<>>, raised |-> Raise(result(j).kind)]

InitFilterDicts ==
    /\ pc = "call"
    /\ pattern \in FilterPatterns
    /\ dictionaries \in SeqsOf(LogicRecords, 0, MaxRecords)
    /\ position = 0 /\ yielded = <<>> /\ raised = NoOutcome
    /\ dictionary = PyNone /\ outcome = NoOutcome
    /\ NoGoogle /\ NoAzure /\ NoOracle

(* filter_dicts(pattern, dictionaries): the filter object is built and
   returned; nothing has been evaluated, so the except clause has nothing to
   catch *)
FilterDicts ==
    /\ pc = "call"
    /\ pc' = "iterating"
    /\ UNCHANGED <<pattern, dictionary, outcome, iterVars,
                   googleVars, azureVars, oracleVars>>

(* the caller takes the next record from the filter object; an exception of
   the function reaches the caller as it left FilterDict.transform *)
FilterNext ==
    /\ pc = "iterating"
    /\ LET n == FilterObjectNext(pattern, dictionaries, position)
       IN  /\ position' = n.position
           /\ yielded' = yielded \o n.item
           /\ raised' = n.raised
           /\ pc' = IF n.raised = Raise("StopIteration") THEN "exhausted" ELSE "iterating"
    /\ UNCHANGED <<pattern, dictionary, outcome, dictionaries,
                   googleVars, azureVars, oracleVars>>

NextFilterDicts == FilterDicts \/ FilterNext

SpecFilterDicts == InitFilterDicts /\ [][NextFilterDicts]_vars

(* C13: when evaluating a record raises SyntaxError or NotImplementedError
   while the caller takes records from filter_dicts, the exception that
   reaches the caller is that one, as from match_dict; it is no VisitError. *)
C13_ErrorsReachTheCallerUnwrapped ==
    (/\ raised.kind = "raise"
     /\ raised # Raise("StopIteration")
     /\ MatchDictResult(pattern, dictionaries[position])
            \in {Raise("SyntaxError"), Raise("NotImplementedError")})
        => /\ raised.val # "VisitError"
           /\ raised = MatchDictResult(pattern, dictionaries[position])

(* C14: the records filter_dicts has yielded are, in the order of the input,
   the records consumed so far on which match_dict returns True; when the
   filter object is exhausted every record has been consumed. *)
C14_YieldsTheMatchingRecords ==
    LET Matches(d) == IsTrue(MatchDictResult(pattern, d))
    IN  /\ position \in 0..Len(dictionaries)
        /\ yielded = SelectSeq(SubSeq(dictionaries, 1, position), Matches)
        /\ pc = "exhausted" => position = Len(dictionaries)

\* two records, the second of which only matches, taken to the end
C14_Witness ==
    /\ pc = "exhausted"
    /\ Len(dictionaries) = 2
    /\ yielded = <<dictionaries[2]>>
    /\ dictionaries[1] # dictionaries[2]
    /\ IsFalse(MatchDictResult(pattern, dictionaries[1]))

---------------------------------------------------------------------------
(* mock_google: GoogleState and the instances resource *)

MaxInserts == 2    \* most instances inserted in one context

Zones == {"europe-west1-b", "europe-west2-a"}

(* names asked for; no body carries the last *)
InstanceNames == {"foo", "bar", "baz"}

DefaultScheduling ==
    [onHostMaintenance |-> "MIGRATE", automaticRestart |-> TRUE,
     preemptible |-> FALSE, nodeAffinities |-> <<>>]

(* request bodies, as functions from their keys: {"name": ...} with or without
   "tags" and "scheduling", and one without "name" *)
Bodies ==
    LET tags       == PyDict(<<Item("items", <<"compute">>)>>)
        scheduling == [DefaultScheduling EXCEPT !.preemptible = TRUE]
    IN  {[name |-> "foo"], [name |-> "bar"],
         [name |-> "foo", tags |-> tags, scheduling |-> scheduling],
         [tags |-> tags]}

(* GoogleComputeInstance(zone, body).data; body["name"] raises KeyError *)
GoogleComputeInstance(zone, body) ==
    IF "name" \notin DOMAIN body THEN Raise("KeyError")
    ELSE [kind |-> "return",
          val  |-> [name       |-> body.name,
                    tags       |-> IF "tags" \in DOMAIN body THEN body.tags
                                   ELSE PyDict(<<>>),
                    status     |-> "RUNNING",
                    scheduling |-> IF "scheduling" \in DOMAIN body THEN body.scheduling
                                   ELSE DefaultScheduling,
                    zone       |-> zone]]

(* what the request method(..., arg) returned or raised *)
Response(method, arg, o) ==
    [method |-> method, arg |-> arg, kind |-> o.kind, val |-> o.val]

(* GoogleComputeInstances.list without a filter *)
ListInstances(instances_) ==
    [kind |-> "return",
     val  |-> IF instances_ # <<>> THEN PyDict(<<Item("items", instances_)>>)
              ELSE PyDict(<<>>)]

(* GoogleComputeInstances.list with a filter: FilterInstance *)

(* the Python str of each name, state and key the instances are made of *)
Chars(s) ==
    CASE s = "foo" -> <<"f", "o", "o">>
      [] s = "bar" -> <<"b", "a", "r">>
      [] s = "baz" -> <<"b", "a", "z">>
      [] s = "RUNNING" -> <<"R", "U", "N", "N", "I", "N", "G">>
      [] s = "MIGRATE" -> <<"M", "I", "G", "R", "A", "T", "E">>
      [] s = "compute" -> <<"c", "o", "m", "p", "u", "t", "e">>
      [] s = "europe-west1-b" ->
            <<"e", "u", "r", "o", "p", "e", "-", "w", "e", "s", "t", "1", "-", "b">>
      [] s = "europe-west2-a" ->
            <<"e", "u", "r", "o", "p", "e", "-", "w", "e", "s", "t", "2", "-", "a">>
      [] s = "name" -> <<"n", "a", "m", "e">>
      [] s = "tags" -> <<"t", "a", "g", "s">>
      [] s = "status" -> <<"s", "t", "a", "t", "u", "s">>
      [] s = "scheduling" ->
            <<"s", "c", "h", "e", "d", "u", "l", "i", "n", "g">>
      [] s = "zone" -> <<"z", "o", "n", "e">>
      [] s = "items" -> <<"i", "t", "e", "m", "s">>
      [] s = "onHostMaintenance" ->
            <<"o", "n", "H", "o", "s", "t", "M", "a", "i", "n", "t", "e", "n", "a", "n", "c", "e">>
      [] s = "automaticRestart" ->
            <<"a", "u", "t", "o", "m", "a", "t", "i", "c", "R", "e", "s", "t", "a", "r", "t">>
      [] s = "preemptible" ->
            <<"p", "r", "e", "e", "m", "p", "t", "i", "b", "l", "e">>
      [] s = "nodeAffinities" ->
            <<"n", "o", "d", "e", "A", "f", "f", "i", "n", "i", "t", "i", "e", "s">>

(* the Mapping a GoogleComputeInstance is, as FilterInstance and FilterDict
   subscript it: its data, in the order __init__ fills it *)
InstanceMapping(i) ==
    PyDict(<<
        Item(Chars("name"), PyStr(Chars(i.name))),
        Item(Chars("tags"),
             IF i.tags = PyDict(<<>>) THEN PyDict(<<>>)
             ELSE PyDict(<<Item(Chars("items"), PyList(<<PyStr(Chars("compute"))>>))>>)),
        Item(Chars("status"), PyStr(Chars(i.status))),
        Item(Chars("scheduling"),
             PyDict(<<Item(Chars("onHostMaintenance"),
                           PyStr(Chars(i.scheduling.onHostMaintenance))),
                      Item(Chars("automaticRestart"),
                           PyBool(i.scheduling.automaticRestart)),
                      Item(Chars("preemptible"), PyBool(i.scheduling.preemptible)),
                      Item(Chars("nodeAffinities"), PyList(<<>>))>>)),
        Item(Chars("zone"), PyStr(Chars(i.zone)))>>)

(* the operator_f table of FilterInstance.compare, applied: "matches" returns
   what re.match returns, a match object or None *)
InstanceOperatorF(op, true_value, value) ==
    CASE op = ":"  -> PatternMatch(true_value, value)
      [] op = "="  -> Ret(PyEq(true_value, value))
      [] op = "!=" -> Ret(~PyEq(true_value, value))
      [] op \in {"<", "<=", ">=", ">"} -> PyOrder(op, true_value, value)
      [] op = "~"  -> LET m == ReMatch(true_value, value)
                      IN  IF m.kind # "return" THEN m
                          ELSE [kind |-> "return",
                                val  |-> IF IsTrue(m) THEN "Match" ELSE "None"]
      [] op = "!~" -> Negate(ReMatch(true_value, value))
      [] OTHER     -> Raise("KeyError")

(* FilterInstance.compare: check_value is the value's token as written *)
InstanceCompare(instance, keys, operator_name, value) ==
    LET kv == KeyValue(instance, keys)
    IN  IF kv.exc = "KeyError" THEN Ret(FALSE)
        ELSE IF kv.exc # "" THEN Raise(kv.exc)
        ELSE InstanceOperatorF(operator_name, kv.val, value.text)

(* FilterInstance.compare_list *)
InstanceCompareList(instance, keys, operator_name, values) ==
    LET kv == KeyValue(instance, keys)
        check_values == [k \in 1..Len(values) |-> values[k].text]
    IN  IF kv.exc = "KeyError" THEN Ret(FALSE)
        ELSE IF kv.exc # "" THEN Raise(kv.exc)
        ELSE IF operator_name \notin LIST_COMPARATOR THEN Raise("KeyError")
        ELSE AnyOf([k \in 1..Len(check_values) |->
                       ListOperatorF(operator_name, kv.val, check_values[k])])

(* FilterInstance.is_defined: self.instance[key] with the key as written, dots
   and all *)
InstanceIsDefined(instance, key) ==
    LET r == GetItem(instance, key)
    IN  IF r.exc = "KeyError" THEN Ret(FALSE)
        ELSE IF r.exc # "" THEN Raise(r.exc)
        ELSE Ret(TRUE)

(* FilterInstance.not_defined *)
InstanceNotDefined(instance, key) == Negate(InstanceIsDefined(instance, key))

(* FilterInstance.logical_unary and FilterInstance.logical_binary *)
InstanceLogicalUnary(data)  == Raise("NotImplementedError")
InstanceLogicalBinary(data) == Raise("NotImplementedError")

(* FilterInstance.start: all(tree) over the one child of start *)
Start(tree) == Ret(\A k \in 1..Len(tree) : tree[k].val \in {"True", "Match"})

RECURSIVE TransformExpression(_, _)
(* the transformer below start: children first, then the rule's method *)
TransformExpression(tree, instance) ==
    CASE tree.data = "compare" ->
            CallUserFunc(InstanceCompare(instance, tree.key, tree.op, tree.items[1]))
      [] tree.data = "compare_list" ->
            CallUserFunc(InstanceCompareList(instance, tree.key, tree.op, tree.items))
      [] tree.data = "is_defined" ->
            CallUserFunc(InstanceIsDefined(instance, tree.key))
      [] tree.data = "not_defined" ->
            CallUserFunc(InstanceNotDefined(instance, tree.key))
      [] tree.data = "logical_unary" ->
            LET c == TransformExpression(tree.children[1], instance)
            IN  IF c.kind # "return" THEN c
                ELSE CallUserFunc(InstanceLogicalUnary(<<c>>))
      [] tree.data = "logical_binary" ->
            LET cs == [k \in 1..Len(tree.children) |->
                          TransformExpression(tree.children[k], instance)]
                failed == {k \in 1..Len(cs) : cs[k].kind # "return"}
            IN  IF failed # {}
                THEN cs[CHOOSE k \in failed : \A j \in failed : k <= j]
                ELSE CallUserFunc(InstanceLogicalBinary(cs))

(* FilterInstance(i).transform(tree) on the tree google.parse_filter returns *)
TransformInstance(tree, instance) ==
    LET r == TransformExpression(tree, instance)
    IN  IF r.kind # "return" THEN r ELSE CallUserFunc(Start(<<r>>))

(* list(self._filter_instances(instances, filter)): the instances the
   transformer is true for; what it raises for one ends the listing *)
FilterInstances(instances_, filter) ==
    LET result(k) == TransformInstance(filter, InstanceMapping(instances_[k]))
        failed    == {k \in 1..Len(instances_) : result(k).kind # "return"}
    IN  IF failed # {}
        THEN Raise(result(CHOOSE k \in failed : \A j \in failed : k <= j).kind)
        ELSE [kind |-> "return",
              val  |-> SelectSeq(instances_,
                                 LAMBDA i : IsTrue(TransformInstance(filter,
                                                                     InstanceMapping(i))))]

(* GoogleComputeInstances.list with filter=[filter] *)
ListInstancesFilter(instances_, filter) ==
    LET found == FilterInstances(instances_, filter)
    IN  IF found.kind # "return" THEN found ELSE ListInstances(found.val)

(* the filters instances.list is called with, over the keys name,
   scheduling.preemptible, tags and name.x:
   comparisons, quoted literals, a wildcard, lists, KEY:*, NOT, AND, OR and
   the implied AND *)
GoogleFilters ==
    LET name   == Chars("name")
        dotted == Chars("scheduling") \o <<".">> \o Chars("preemptible")
        foo    == Chars("foo")
        bar    == Chars("bar")
        isFoo  == CompareNode(name, "=", foo)
        isBar  == CompareNode(name, "=", bar)
    IN  {CompareNode(name, op, foo) : op \in VALUE_COMPARATOR}
        \cup {CompareNode(name, "=", Quote(foo)), CompareNode(name, ":", Quote(foo)),
              CompareNode(name, ":", <<"f", "o", "*">>),
              CompareNode(name, "~", <<"f", "o", "*">>),
              CompareNode(dotted, "=", foo),
              CompareNode(name \o <<".", "x">>, "=", foo),
              CompareListNode(name, "=(", <<foo, bar>>),
              CompareListNode(name, ":(", <<bar>>),
              CompareListNode(name, "=(", <<Quote(foo)>>),
              IsDefinedNode(name), NotDefinedNode(name),
              IsDefinedNode(dotted), NotDefinedNode(dotted),
              IsDefinedNode(Chars("baz")),
              LogicalUnaryNode("NOT", isFoo),
              LogicalBinaryNode(<<isFoo, isBar>>, <<"OR">>),
              LogicalBinaryNode(<<isFoo, isFoo>>, <<"AND">>),
              LogicalBinaryNode(<<isFoo, isBar>>, <<"WS">>)}

(* self.state.instances.append(...), were it to put the instance first *)
InsertInstanceFirst(instances_, instance) == <<instance>> \o instances_

(* self.state.instances.append(...) *)
InsertInstance(instances_, instance) == Append(instances_, instance)

(* GoogleComputeInstances.get, were it to return None for a missing name *)
GetInstanceOrNone(instances_, instance) ==
    LET found == SelectSeq(instances_, LAMBDA i : i.name = instance)
    IN  IF found # <<>> THEN [kind |-> "return", val |-> found[1]]
        ELSE [kind |-> "return", val |-> PyNone]

(* GoogleComputeInstances.get *)
GetInstance(instances_, instance) ==
    LET found == SelectSeq(instances_, LAMBDA i : i.name = instance)
    IN  IF found # <<>> THEN [kind |-> "return", val |-> found[1]]
        ELSE [kind |-> "raise", val |-> [exc |-> "HttpError", status |-> "404"]]

(* the state of a context, were there one GoogleState for all contexts *)
GoogleStateShared == state

(* GoogleState().instances *)
GoogleState == <<>>

InitGoogle ==
    /\ mocking = FALSE /\ state = <<>> /\ inserted = <<>> /\ earlier = FALSE
    /\ response = Response("", "", NoOutcome)
    /\ pc = "idle" /\ pattern = PyNone /\ dictionary = PyNone /\ outcome = NoOutcome
    /\ NoIteration /\ NoAzure /\ NoOracle

(* with mock_google(): *)
EnterMockGoogle ==
    /\ ~mocking
    /\ mocking' = TRUE
    /\ state' = GoogleState
    /\ inserted' = <<>>
    /\ response' = Response("", "", NoOutcome)
    /\ UNCHANGED <<earlier, matchVars, iterVars, azureVars, oracleVars>>

(* the end of the with block *)
ExitMockGoogle ==
    /\ mocking
    /\ mocking' = FALSE
    /\ earlier' = (earlier \/ inserted # <<>>)
    /\ UNCHANGED <<state, inserted, response, matchVars, iterVars, azureVars, oracleVars>>

(* instances().insert(project, zone, body).execute() *)
GoogleInsert ==
    /\ mocking
    /\ Len(state) < MaxInserts
    /\ \E zone \in Zones, body \in Bodies :
          LET i == GoogleComputeInstance(zone, body)
          IN  IF i.kind = "raise"
              THEN /\ response' = Response("insert", "", i)
                   /\ UNCHANGED <<state, inserted>>
              ELSE /\ state' = InsertInstance(state, i.val)
                   /\ inserted' = Append(inserted, [zone |-> zone, body |-> body])
                   /\ response' = Response("insert", "", [kind |-> "return", val |-> PyNone])
    /\ UNCHANGED <<mocking, earlier, matchVars, iterVars, azureVars, oracleVars>>

(* instances().list(project, zone).execute() *)
GoogleList ==
    /\ mocking
    /\ response' = Response("list", "", ListInstances(state))
    /\ UNCHANGED <<mocking, state, inserted, earlier,
                   matchVars, iterVars, azureVars, oracleVars>>

(* instances().get(project, zone, instance).execute() *)
GoogleGet ==
    /\ mocking
    /\ \E instance \in InstanceNames :
          response' = Response("get", instance, GetInstance(state, instance))
    /\ UNCHANGED <<mocking, state, inserted, earlier,
                   matchVars, iterVars, azureVars, oracleVars>>

(* instances().list(project, zone, filter=...).execute() *)
GoogleListFilter ==
    /\ mocking
    /\ \E filter \in GoogleFilters :
          response' = Response("list filter", filter, ListInstancesFilter(state, filter))
    /\ UNCHANGED <<mocking, state, inserted, earlier,
                   matchVars, iterVars, azureVars, oracleVars>>

NextGoogle ==
    \/ EnterMockGoogle \/ ExitMockGoogle \/ GoogleInsert \/ GoogleList \/ GoogleGet
    \/ GoogleListFilter

SpecGoogle == InitGoogle /\ [][NextGoogle]_vars

(* the instances the inserts of the open context have made, in their order *)
InsertedInstances ==
    [k \in 1..Len(inserted) |->
        GoogleComputeInstance(inserted[k].zone, inserted[k].body).val]

(* C15: in a context where instances have been inserted, list without a
   filter returns {"items": ...} with exactly the inserted instances in the
   order of insertion, and get of every inserted name returns an instance of
   that name that is among the listed ones. *)
C15_ListAndGetAgreeWithInserts ==
    (mocking /\ inserted # <<>>) =>
        /\ ListInstances(state).val = PyDict(<<Item("items", InsertedInstances)>>)
        /\ response.method = "list" =>
               response.val = PyDict(<<Item("items", InsertedInstances)>>)
        /\ \A k \in 1..Len(inserted) :
               LET got == GetInstance(state, inserted[k].body.name)
               IN  /\ got.kind = "return"
                   /\ got.val.name = inserted[k].body.name
                   /\ \E j \in 1..Len(InsertedInstances) : InsertedInstances[j] = got.val
        /\ (response.method = "get" /\ response.kind = "return") =>
               /\ response.val.name = response.arg
               /\ \E j \in 1..Len(InsertedInstances) : InsertedInstances[j] = response.val

\* two different instances inserted, then listed
C15_Witness ==
    /\ mocking
    /\ Len(inserted) = 2
    /\ inserted[1] # inserted[2]
    /\ response.method = "list"

(* C16: get of a name no instance of the context has raises HttpError with
   status "404", get of a name some instance has returns without raising, and
   either way the instances are still the inserted ones. *)
C16_GetMissingIs404 ==
    (mocking /\ response.method = "get") =>
        LET present == \E j \in 1..Len(state) : state[j].name = response.arg
        IN  /\ present => response.kind = "return"
            /\ ~present =>
                   /\ response.kind = "raise"
                   /\ response.val = [exc |-> "HttpError", status |-> "404"]
            /\ state = InsertedInstances

\* a missing name asked for while other instances exist
C16_Witness ==
    /\ mocking
    /\ response.method = "get"
    /\ response.kind = "raise"
    /\ state # <<>>

(* C17: in a context where no instance has been inserted yet, list returns {},
   without "items", whatever was inserted in contexts before it. *)
C17_ContextStartsEmpty ==
    (mocking /\ inserted = <<>>) =>
        /\ ListInstances(state).val = PyDict(<<>>)
        /\ response.method = "list" => response.val = PyDict(<<>>)

\* a list in a fresh context that follows one with instances
C17_Witness ==
    /\ mocking
    /\ earlier
    /\ inserted = <<>>
    /\ response.method = "list"

(* C21: when match_dict returns a boolean for the filter on every instance of
   the context, instances.list with that filter returns the instances on which
   match_dict returns True, in insertion order, under "items" ({} when there
   is none). *)
C21_FilteredListIsMatchDict ==
    (mocking /\ response.method = "list filter") =>
        LET Matches(i) == MatchDictResult(response.arg, InstanceMapping(i))
        IN  (\A k \in 1..Len(state) : Matches(state[k]).kind = "return") =>
               /\ response.kind = "return"
               /\ response.val =
                      ListInstances(SelectSeq(state, LAMBDA i : IsTrue(Matches(i)))).val

---------------------------------------------------------------------------
(* mock_azure: AzureState and VirtualMachinesOperations *)

MaxVms == 2    \* most virtual machines in one resource group

ResourceGroups == {"group", "other"}

VmNames == {"ins", "ins2"}

(* the parameters of a virtual machine, told apart by their location *)
VmParameters == {[location |-> "eastus"], [location |-> "westus"]}

(* VirtualMachine.from_dict(parameters) with vm.name = vm_name; two of these
   are equal when their attributes are *)
VirtualMachine(parameters, vm_name) ==
    [name |-> vm_name, location |-> parameters.location]

(* what the operation method(group, name) returned or raised *)
AzureResponse(method, group, name, o) ==
    [method |-> method, group |-> group, name |-> name, kind |-> o.kind, val |-> o.val]

(* VirtualMachinesOperations.get(...).result(): the first virtual machine of
   the group with the name; [0] of an empty list raises IndexError *)
GetVm(instances_, resource_group_name, vm_name) ==
    LET found == SelectSeq(instances_[resource_group_name], LAMBDA i : i.name = vm_name)
    IN  IF found # <<>> THEN [kind |-> "return", val |-> found[1]]
        ELSE [kind |-> "raise", val |-> "IndexError"]

(* list(VirtualMachinesOperations.list(...)) *)
ListVms(instances_, resource_group_name) ==
    [kind |-> "return", val |-> instances_[resource_group_name]]

(* AzureState(): a defaultdict(list), every group's list empty *)
InitAzure ==
    /\ vms = [g \in ResourceGroups |-> <<>>]
    /\ poller = AzureResponse("", "", "", NoOutcome)
    /\ pc = "idle" /\ pattern = PyNone /\ dictionary = PyNone /\ outcome = NoOutcome
    /\ NoIteration /\ NoGoogle /\ NoOracle

(* virtual_machines.create_or_update(group, name, parameters) *)
CreateOrUpdate ==
    /\ \A g \in ResourceGroups : Len(vms[g]) < MaxVms
    /\ \E g \in ResourceGroups, n \in VmNames, parameters \in VmParameters :
          LET vm == VirtualMachine(parameters, n)
          IN  /\ vms' = [vms EXCEPT ![g] = Append(@, vm)]
              /\ poller' = AzureResponse("create_or_update", g, n,
                                          [kind |-> "return", val |-> vm])
    /\ UNCHANGED <<matchVars, iterVars, googleVars, oracleVars>>

(* virtual_machines.get(group, name) *)
AzureGet ==
    /\ \E g \in ResourceGroups, n \in VmNames :
          poller' = AzureResponse("get", g, n, GetVm(vms, g, n))
    /\ UNCHANGED <<vms, matchVars, iterVars, googleVars, oracleVars>>

(* virtual_machines.list(group) *)
AzureList ==
    /\ \E g \in ResourceGroups :
          poller' = AzureResponse("list", g, "", ListVms(vms, g))
    /\ UNCHANGED <<vms, matchVars, iterVars, googleVars, oracleVars>>

NextAzure == CreateOrUpdate \/ AzureGet \/ AzureList

SpecAzure == InitAzure /\ [][NextAzure]_vars

(* C18: right after create_or_update(group, name, parameters) has returned a
   virtual machine, get(group, name).result() is equal to that virtual
   machine and list(group) contains it. *)
C18_GetReturnsWhatWasJustCreated ==
    poller.method = "create_or_update" =>
        /\ GetVm(vms, poller.group, poller.name) = [kind |-> "return", val |-> poller.val]
        /\ InSeq(poller.val, ListVms(vms, poller.group).val)

---------------------------------------------------------------------------
(* mock_oracle: OracleState, OracleComputeClient, OracleVirtualNetworkClient *)

MaxLaunches == 2    \* most launch_instance calls

Compartments == {"compartment_id", "foo"}

(* display names, as Python strings *)
DisplayNames == {<<"a">>, <<"b">>}

(* LaunchInstanceDetails(compartment_id=..., display_name=...): either name
   in the one compartment, one name in the other *)
LaunchInstanceDetails ==
    {d \in [compartment_id : Compartments, display_name : DisplayNames,
            availability_domain : {"AD-1"}] :
        d.compartment_id = "compartment_id" \/ d.display_name = <<"a">>}

(* two of the strings random.choices(string.ascii_lowercase, k=10) makes *)
RandomChoices == {"aaaaaaaaaa", "bbbbbbbbbb"}

InstanceId(letters) == <<"ocid1.instance.oc1..", letters>>
VnicId(letters)     == <<"ocid1.vnic.oc1..", letters>>

(* IPv4Network("10.0.0.0/24") as integers *)
NetworkAddress   == 10 * 2^24
BroadcastAddress == NetworkAddress + (2^(32 - 24) - 1)

(* the least and the greatest of random.randrange(start, stop) *)
RandRange(start, stop) == {start, stop - 1}

DecimalDigits == <<"0", "1", "2", "3", "4", "5", "6", "7", "8", "9">>

RECURSIVE Str(_)
(* str(n) of a natural number *)
Str(n) ==
    IF n < 10 THEN <<DecimalDigits[n + 1]>>
    ELSE Str(n \div 10) \o <<DecimalDigits[(n % 10) + 1]>>

(* str(IPv4Address(n)) *)
StrIPv4Address(n) ==
    Str(n \div 2^24) \o <<".">> \o Str((n \div 2^16) % 256) \o <<".">>
        \o Str((n \div 2^8) % 256) \o <<".">> \o Str(n % 256)

(* oci.core.models.Instance(...) of launch_instance *)
Instance(letters, details, now) ==
    [id                  |-> InstanceId(letters),
     compartment_id      |-> details.compartment_id,
     availability_domain |-> details.availability_domain,
     display_name        |-> details.display_name,
     lifecycle_state     |-> "RUNNING",
     time_created        |-> now]

(* oci.core.models.Vnic(...) of launch_instance *)
Vnic(letters, details, ip) ==
    [compartment_id |-> details.compartment_id,
     id             |-> VnicId(letters),
     private_ip     |-> StrIPv4Address(ip)]

(* an attachment that names the vnic where the instance belongs *)
VnicAttachmentOfVnic(compartment_id, instance_id, vnic_id) ==
    [compartment_id |-> compartment_id, instance_id |-> vnic_id, vnic_id |-> vnic_id]

(* oci.core.models.VnicAttachment(...) of launch_instance *)
VnicAttachment(compartment_id, instance_id, vnic_id) ==
    [compartment_id |-> compartment_id, instance_id |-> instance_id, vnic_id |-> vnic_id]

(* sorted(l, key=lambda i: i.<key>, reverse=reverse): stable in either
   direction *)
Sorted(l, key, reverse) ==
    LET KeyLt(x, y)  == IF key = "time_created" THEN x.time_created < y.time_created
                        ELSE StrLt(x.display_name, y.display_name)
        Less(x, y)   == IF reverse THEN KeyLt(y, x) ELSE KeyLt(x, y)
        Before(j, i) == Less(l[j], l[i]) \/ (~Less(l[i], l[j]) /\ j < i)
        rank(i)      == Cardinality({j \in 1..Len(l) : Before(j, i)}) + 1
    IN  [k \in 1..Len(l) |-> l[CHOOSE i \in 1..Len(l) : rank(i) = k]]

(* the keyword arguments list_instances is called with: none, a filter, a
   sort with or without an order *)
ListInstancesKwargs ==
    {<<>>,
     [availability_domain |-> "AD-1", display_name |-> <<"a">>,
      lifecycle_state |-> "RUNNING"],
     [sort_by |-> "TIMECREATED"],
     [sort_by |-> "DISPLAYNAME", sort_order |-> "DESC"]}

(* OracleComputeClient.list_instances(compartment_id, **kwargs).data *)
list_instances(instances_, compartment_id, kwargs) ==
    LET Keeps(i) ==
            /\ "availability_domain" \in DOMAIN kwargs =>
                   i.availability_domain = kwargs.availability_domain
            /\ "display_name" \in DOMAIN kwargs => i.display_name = kwargs.display_name
            /\ "lifecycle_state" \in DOMAIN kwargs =>
                   i.lifecycle_state = kwargs.lifecycle_state
        ins     == SelectSeq(instances_[compartment_id], Keeps)
        given   == "sort_order" \in DOMAIN kwargs
        desc    == given /\ kwargs.sort_order = "DESC"
    IN  IF "sort_by" \notin DOMAIN kwargs THEN ins
        ELSE IF kwargs.sort_by = "TIMECREATED"
        THEN Sorted(ins, "time_created", IF given THEN desc ELSE TRUE)
        ELSE IF kwargs.sort_by = "DISPLAYNAME"
        THEN Sorted(ins, "display_name", IF given THEN desc ELSE FALSE)
        ELSE ins

(* OracleComputeClient.list_vnic_attachments(compartment_id, instance_id=...).data *)
list_vnic_attachments(attachments_, compartment_id, instance_id) ==
    SelectSeq(attachments_,
              LAMBDA a : a.compartment_id = compartment_id /\ a.instance_id = instance_id)

(* OracleVirtualNetworkClient.get_vnic(vnic_id): vnics[0] of an empty list
   raises IndexError *)
get_vnic(vnics_, vnic_id) ==
    LET found == SelectSeq(vnics_, LAMBDA v : v.id = vnic_id)
    IN  IF found # <<>> THEN [kind |-> "return", val |-> found[1]]
        ELSE [kind |-> "raise", val |-> "IndexError"]

(* self._state.instances[...].append(instance), were all compartments to
   share one list *)
AppendInstanceToAll(instances_, compartment_id, instance) ==
    [c \in DOMAIN instances_ |-> Append(instances_[c], instance)]

(* self._state.instances[compartment_id].append(instance) *)
AppendInstance(instances_, compartment_id, instance) ==
    [instances_ EXCEPT ![compartment_id] = Append(@, instance)]

(* what the client call method(args) returned or raised *)
OracleResponse(method, args, o) ==
    [method |-> method, args |-> args, kind |-> o.kind, val |-> o.val]

(* OracleState(): no instance in any compartment, no vnic, no attachment *)
InitOracle ==
    /\ instances = [c \in Compartments |-> <<>>]
    /\ vnics = <<>>
    /\ vnic_attachments = <<>>
    /\ launched = <<>>
    /\ listing = OracleResponse("", <<>>, NoOutcome)
    /\ pc = "idle" /\ pattern = PyNone /\ dictionary = PyNone /\ outcome = NoOutcome
    /\ NoIteration /\ NoGoogle /\ NoAzure

(* compute.launch_instance(launch_instance_details) *)
LaunchInstance ==
    /\ Len(launched) < MaxLaunches
    /\ \E details \in LaunchInstanceDetails,
          instance_letters \in RandomChoices, vnic_letters \in RandomChoices,
          ip \in RandRange(NetworkAddress + 1, BroadcastAddress - 1) :
          LET instance == Instance(instance_letters, details, Len(launched) + 1)
              vnic     == Vnic(vnic_letters, details, ip)
          IN  /\ instances' = AppendInstance(instances, details.compartment_id, instance)
              /\ vnics' = Append(vnics, vnic)
              /\ vnic_attachments' =
                     Append(vnic_attachments,
                            VnicAttachment(details.compartment_id, instance.id, vnic.id))
              /\ launched' = Append(launched, details)
    /\ listing' = OracleResponse("launch_instance", <<>>, [kind |-> "return", val |-> PyNone])
    /\ UNCHANGED <<matchVars, iterVars, googleVars, azureVars>>

(* compute.list_instances(compartment_id, **kwargs) *)
OracleListInstances ==
    /\ \E c \in Compartments, kwargs \in ListInstancesKwargs :
          listing' = OracleResponse("list_instances", <<c, kwargs>>,
                         [kind |-> "return", val |-> list_instances(instances, c, kwargs)])
    /\ UNCHANGED <<instances, vnics, vnic_attachments, launched,
                   matchVars, iterVars, googleVars, azureVars>>

(* compute.list_vnic_attachments(compartment_id, instance_id=...) *)
OracleListVnicAttachments ==
    /\ \E c \in Compartments, letters \in RandomChoices :
          listing' = OracleResponse("list_vnic_attachments", <<c, InstanceId(letters)>>,
                         [kind |-> "return",
                          val  |-> list_vnic_attachments(vnic_attachments, c,
                                                         InstanceId(letters))])
    /\ UNCHANGED <<instances, vnics, vnic_attachments, launched,
                   matchVars, iterVars, googleVars, azureVars>>

(* network.get_vnic(vnic_id) *)
OracleGetVnic ==
    /\ \E letters \in RandomChoices :
          listing' = OracleResponse("get_vnic", <<VnicId(letters)>>,
                                    get_vnic(vnics, VnicId(letters)))
    /\ UNCHANGED <<instances, vnics, vnic_attachments, launched,
                   matchVars, iterVars, googleVars, azureVars>>

NextOracle ==
    LaunchInstance \/ OracleListInstances \/ OracleListVnicAttachments \/ OracleGetVnic

SpecOracle == InitOracle /\ [][NextOracle]_vars

(* the launches made with compartment_id c, in their order *)
LaunchedIn(c) == SelectSeq(launched, LAMBDA d : d.compartment_id = c)

(* C19: list_instances(c) without filter or sort arguments returns, for every
   compartment c, one instance per launch made with compartment_id c, in the
   order of the launches, each with the display_name of its launch,
   compartment_id c and lifecycle_state RUNNING: nothing for a compartment
   without launches, and nothing from launches in another compartment. *)
C19_ListIsTheLaunchesOfTheCompartment ==
    /\ \A c \in Compartments :
          LET data == list_instances(instances, c, <<>>)
          IN  /\ Len(data) = Len(LaunchedIn(c))
              /\ \A k \in 1..Len(data) :
                     /\ data[k].display_name = LaunchedIn(c)[k].display_name
                     /\ data[k].compartment_id = c
                     /\ data[k].lifecycle_state = "RUNNING"
    /\ (listing.method = "list_instances" /\ listing.args[2] = <<>>) =>
          listing.val = list_instances(instances, listing.args[1], <<>>)

\* two launches in one compartment under different names and none in the
\* other, which has just been listed
C19_Witness ==
    /\ Len(launched) = 2
    /\ launched[1].compartment_id = launched[2].compartment_id
    /\ launched[1].display_name # launched[2].display_name
    /\ listing.method = "list_instances"
    /\ listing.args[2] = <<>>
    /\ listing.args[1] # launched[1].compartment_id
    /\ listing.val = <<>>

RECURSIVE NumInstances(_)
(* how many instances the compartments of S hold together *)
NumInstances(S) ==
    IF S = {} THEN 0
    ELSE LET c == CHOOSE c \in S : TRUE
         IN  Len(instances[c]) + NumInstances(S \ {c})

(* the generated instance ids differ from each other, and so do the vnic ids *)
IdsAreDistinct ==
    /\ \A c1 \in Compartments, c2 \in Compartments :
          \A j \in 1..Len(instances[c1]), k \in 1..Len(instances[c2]) :
             instances[c1][j].id = instances[c2][k].id => (c1 = c2 /\ j = k)
    /\ \A j \in 1..Len(vnics), k \in 1..Len(vnics) : vnics[j].id = vnics[k].id => j = k

(* the value of a decimal digit *)
DigitValue(c) == CHOOSE n \in 0..9 : DecimalDigits[n + 1] = c

RECURSIVE DecimalValue(_)
DecimalValue(text) ==
    IF text = <<>> THEN 0
    ELSE 10 * DecimalValue(SubSeq(text, 1, Len(text) - 1)) + DigitValue(text[Len(text)])

(* four decimal numbers of 0..255 with dots between *)
IsDottedIPv4(text) ==
    LET parts == SplitOn(text, ".", 1, <<>>, TRUE)
    IN  /\ Len(parts) = 4
        /\ \A k \in 1..Len(parts) :
               /\ parts[k] # <<>>
               /\ \A j \in 1..Len(parts[k]) : InSeq(parts[k][j], DecimalDigits)
               /\ DecimalValue(parts[k]) \in 0..255

(* C20: there are always as many vnics and as many attachments as instances;
   and when the generated ids are distinct, list_vnic_attachments for an
   instance's compartment and id returns exactly one attachment, whose vnic_id
   is the id of exactly one stored vnic, which get_vnic returns and whose
   private_ip is a dotted IPv4 address. *)
C20_OneVnicPerInstance ==
    LET total == NumInstances(Compartments)
    IN  /\ Len(vnics) = total
        /\ Len(vnic_attachments) = total
        /\ IdsAreDistinct =>
               \A c \in Compartments : \A k \in 1..Len(instances[c]) :
                  LET data == list_vnic_attachments(vnic_attachments, c, instances[c][k].id)
                      same == {j \in 1..Len(vnics) : vnics[j].id = data[1].vnic_id}
                  IN  /\ Len(data) = 1
                      /\ Cardinality(same) = 1
                      /\ \A j \in same :
                             /\ get_vnic(vnics, data[1].vnic_id) =
                                    [kind |-> "return", val |-> vnics[j]]
                             /\ IsDottedIPv4(vnics[j].private_ip)

\* two instances with different ids and vnic ids, a vnic of which has just
\* been fetched
C20_Witness ==
    /\ Len(vnics) = 2
    /\ IdsAreDistinct
    /\ vnics[1].private_ip # vnics[2].private_ip
    /\ listing.method = "get_vnic"
    /\ listing.kind = "return"
    /\ listing.val = vnics[2]

=============================================================================
